---- MODULE Spec2Model ----
(***************************************************************************)
(* Hotel concierge: the reservation store (src/hotel_concierge/database.py)*)
(* and the tool facade over it (src/hotel_concierge/server.py).            *)
(*                                                                         *)
(* Texts the code compares or converts are sequences of ASCII codes, so    *)
(* that str.upper(), SQLite's text comparison and strptime are computed    *)
(* and not assumed.  A date string is "YYYY-MM-" followed by its day       *)
(* field; every date of the model lies in one month, so the common prefix  *)
(* is left out and a date text is the day field alone ("08", "9").         *)
(* Amounts are whole dollars (every seeded rate is).                       *)
(***************************************************************************)
EXTENDS Integers, Sequences, FiniteSets, TLC

VARIABLES
    room_types,        \* table room_types: id -> row
    rooms,             \* table rooms: room_number -> row
    reservations,      \* table reservations: confirmation_number -> row
    service_requests,  \* table service_requests: sequence of rows, by id
    hotel_info,        \* table hotel_info: key -> value
    last,              \* the last call made and what it returned
    pending            \* per caller: the call it is in the middle of

vars == <<room_types, rooms, reservations, service_requests, hotel_info, last,
          pending>>

tables == <<room_types, rooms, reservations, service_requests, hotel_info>>

----------------------------------------------------------------------------
(* Bounds of the model *)

\* floors seeded with rooms (the code seeds 4 floors of 5 rooms each)
NumFloors == 1

\* service requests the model lets the store hold
MaxRequests == 1

\* service requests the store holds where their sequence is looked at
MaxRequestsKept == 2

----------------------------------------------------------------------------
(* Texts *)

\* Python None, and SQL NULL for a text column
None == "<None>"

\* the one value of a returned set
The(S) == CHOOSE x \in S : TRUE

\* SQL NULL for reservations.room_number (room numbers are three-digit
\* texts, modelled by their numeric value: same order, same equality)
NULL == 0

UpperChar(c) == IF c >= 97 /\ c <= 122 THEN c - 32 ELSE c

\* a mutant of Upper: the text as passed
UpperIdentity(s) == s

\* str.upper()
Upper(s) == [i \in DOMAIN s |-> UpperChar(s[i])]

\* SQLite's comparison of two TEXT values (BINARY collation): the first
\* differing byte decides, and a proper prefix is the smaller
TextLt(s, t) ==
    \E i \in 1..Len(t) :
        /\ \A j \in 1..(i - 1) : j <= Len(s) /\ s[j] = t[j]
        /\ i > Len(s) \/ s[i] < t[i]

IsDigit(c) == c >= 48 /\ c <= 57

\* the day of the month the model's "today" is
Today == 8

\* days of the model's month
DaysInMonth == 30

\* the number a day field of one or two digits denotes
DayValue(s) == IF Len(s) = 1 THEN s[1] - 48 ELSE 10 * (s[1] - 48) + (s[2] - 48)

\* datetime.strptime(s, "%Y-%m-%d") succeeds: %d takes 1..9 with or without
\* a leading zero, and 10..31; the date must exist
Parses(s) ==
    /\ Len(s) \in {1, 2}
    /\ \A i \in DOMAIN s : IsDigit(s[i])
    /\ DayValue(s) >= 1
    /\ DayValue(s) <= DaysInMonth

\* str(date): the day field is always two digits
FormatDay(d) == <<48 + (d \div 10), 48 + (d % 10)>>

\* "CONF"
CONF == <<67, 79, 78, 70>>

CONF001 == CONF \o <<48, 48, 49>>
CONF002 == CONF \o <<48, 48, 50>>
CONF003 == CONF \o <<48, 48, 51>>

----------------------------------------------------------------------------
(* Seeded data: _insert_sample_data *)

SeedRoomTypes ==
    [id \in {"standard", "deluxe", "suite", "family"} |->
        CASE id = "standard" -> [name |-> "Standard Room", base_rate |-> 149, max_occupancy |-> 2]
          [] id = "deluxe"   -> [name |-> "Deluxe Room", base_rate |-> 219, max_occupancy |-> 2]
          [] id = "suite"    -> [name |-> "Executive Suite", base_rate |-> 399, max_occupancy |-> 4]
          [] id = "family"   -> [name |-> "Family Room", base_rate |-> 249, max_occupancy |-> 4]]

FloorTypes == <<"standard", "standard", "deluxe", "suite", "family">>

\* room_num counts up from 201 through the floors: floor f holds rooms
\* 201 + 5 (f - 2) .. 205 + 5 (f - 2)
SeedRooms ==
    [n \in 201..(200 + Len(FloorTypes) * NumFloors) |->
        [room_type_id |-> FloorTypes[((n - 201) % Len(FloorTypes)) + 1],
         floor |-> 2 + ((n - 201) \div Len(FloorTypes)),
         status |-> "available"]]

SeedReservations ==
    [k \in {CONF001, CONF002, CONF003} |->
        CASE k = CONF001 ->
               [guest_name |-> "John Smith", guest_email |-> "john.smith@email.com",
                guest_phone |-> "555-0101", room_number |-> 301, room_type_id |-> "deluxe",
                check_in_date |-> FormatDay(Today - 1), check_out_date |-> FormatDay(Today + 2),
                num_guests |-> 2, status |-> "checked_in", total_amount |-> 657,
                special_requests |-> "Late checkout requested"]
          [] k = CONF002 ->
               [guest_name |-> "Sarah Johnson", guest_email |-> "sarah.j@email.com",
                guest_phone |-> "555-0102", room_number |-> NULL, room_type_id |-> "suite",
                check_in_date |-> FormatDay(Today + 3), check_out_date |-> FormatDay(Today + 5),
                num_guests |-> 2, status |-> "confirmed", total_amount |-> 798,
                special_requests |-> "Anniversary celebration"]
          [] k = CONF003 ->
               [guest_name |-> "The Williams Family", guest_email |-> "williams@email.com",
                guest_phone |-> "555-0103", room_number |-> NULL, room_type_id |-> "family",
                check_in_date |-> FormatDay(Today + 1), check_out_date |-> FormatDay(Today + 4),
                num_guests |-> 4, status |-> "confirmed", total_amount |-> 747,
                special_requests |-> "Need crib for infant"]]

SeedHotelInfo ==
    [k \in {"name", "check_in_time", "local_attractions"} |->
        CASE k = "name" -> [kind |-> "text", value |-> "The Grand Azure Hotel"]
          [] k = "check_in_time" -> [kind |-> "text", value |-> "3:00 PM"]
          [] k = "local_attractions" -> [kind |-> "list", value |-> "Seaside Pier"]]

----------------------------------------------------------------------------
(* The store: database.py *)

\* a mutant of RowLess: ORDER BY r.room_number alone
RowLessByNumber(m, n) == m < n

\* ORDER BY rt.base_rate, r.room_number, for rooms m and n
RowLess(m, n) ==
    \/ room_types[rooms[m].room_type_id].base_rate
           < room_types[rooms[n].room_type_id].base_rate
    \/ /\ room_types[rooms[m].room_type_id].base_rate
           = room_types[rooms[n].room_type_id].base_rate
       /\ m < n

\* the room numbers S in that order: the first of them, then the others
RECURSIVE OrderBy(_)
OrderBy(S) ==
    IF S = {} THEN <<>>
    ELSE LET first == CHOOSE n \in S : \A m \in S : ~RowLess(m, n)
         IN  <<first>> \o OrderBy(S \ {first})

\* a mutant of ReservedRooms: the reservation's status is not looked at
ReservedRoomsAnyStatus(check_in, check_out) ==
    {reservations[k].room_number : k \in
        {k \in DOMAIN reservations :
            /\ reservations[k].room_number # NULL
            /\ TextLt(reservations[k].check_in_date, check_out)
            /\ TextLt(check_in, reservations[k].check_out_date)}}

\* the subquery of check_availability: room numbers held by an active
\* reservation whose dates, compared as texts, overlap [check_in, check_out)
ReservedRooms(check_in, check_out) ==
    {reservations[k].room_number : k \in
        {k \in DOMAIN reservations :
            /\ reservations[k].room_number # NULL
            /\ reservations[k].status \in {"confirmed", "checked_in"}
            /\ TextLt(reservations[k].check_in_date, check_out)
            /\ TextLt(check_in, reservations[k].check_out_date)}}

\* if room_type: the filter applies to a non-empty string only
Truthy(room_type) == room_type # None /\ room_type # ""

\* the rooms the WHERE clause of check_availability keeps
AvailableRooms(check_in, check_out, room_type) ==
    LET reserved == ReservedRooms(check_in, check_out)
    IN  {n \in DOMAIN rooms :
            /\ rooms[n].room_type_id \in DOMAIN room_types
            /\ rooms[n].status = "available"
            /\ n \notin reserved
            /\ Truthy(room_type) => rooms[n].room_type_id = room_type}

\* the row of the join for room n
JoinedRow(n) ==
    [room_number |-> n,
     floor |-> rooms[n].floor,
     room_type_id |-> rooms[n].room_type_id,
     room_type_name |-> room_types[rooms[n].room_type_id].name,
     base_rate |-> room_types[rooms[n].room_type_id].base_rate,
     max_occupancy |-> room_types[rooms[n].room_type_id].max_occupancy]

db_check_availability(check_in, check_out, room_type) ==
    LET ordered == OrderBy(AvailableRooms(check_in, check_out, room_type))
    IN  [i \in DOMAIN ordered |-> JoinedRow(ordered[i])]

\* a mutant of db_make_reservation's total: the rate alone, whatever the nights
TotalIsRate(rate, nights) == rate

\* total = rate * nights
Total(rate, nights) == rate * nights

\* a mutant of NewRow: the row is given room 204
NewRowAssigned(guest_name, guest_email, guest_phone, room_type_id, check_in, check_out, num_guests, total, special_requests) ==
    [guest_name |-> guest_name, guest_email |-> guest_email,
     guest_phone |-> guest_phone, room_number |-> 204,
     room_type_id |-> room_type_id, check_in_date |-> check_in,
     check_out_date |-> check_out, num_guests |-> num_guests,
     status |-> "confirmed", total_amount |-> total,
     special_requests |-> special_requests]

\* the row the INSERT of make_reservation writes: room_number is not among
\* its columns (NULL) and status takes the column default, 'confirmed'
NewRow(guest_name, guest_email, guest_phone, room_type_id, check_in, check_out, num_guests, total, special_requests) ==
    [guest_name |-> guest_name, guest_email |-> guest_email,
     guest_phone |-> guest_phone, room_number |-> NULL,
     room_type_id |-> room_type_id, check_in_date |-> check_in,
     check_out_date |-> check_out, num_guests |-> num_guests,
     status |-> "confirmed", total_amount |-> total,
     special_requests |-> special_requests]

\* a mutant of db_make_reservation: INSERT OR REPLACE, a row with the drawn
\* confirmation number is overwritten
db_make_reservation_replace(conf_num, guest_name, guest_email, guest_phone, room_type_id, check_in, check_out, num_guests, special_requests) ==
    IF ~(Parses(check_in) /\ Parses(check_out))
    THEN [raised |-> "ValueError", reservations |-> reservations, ret |-> {}]
    ELSE IF room_type_id \notin DOMAIN room_types
    THEN [raised |-> "TypeError", reservations |-> reservations, ret |-> {}]
    ELSE LET nights == DayValue(check_out) - DayValue(check_in)
             total  == Total(room_types[room_type_id].base_rate, nights)
             row    == NewRow(guest_name, guest_email, guest_phone,
                              room_type_id, check_in, check_out,
                              num_guests, total, special_requests)
         IN  [raised |-> None,
              reservations |->
                  [k \in DOMAIN reservations \cup {conf_num} |->
                      IF k = conf_num THEN row ELSE reservations[k]],
              ret |-> {[confirmation_number |-> conf_num,
                        guest_name |-> guest_name,
                        room_type |-> room_type_id,
                        check_in |-> check_in,
                        check_out |-> check_out,
                        nights |-> nights,
                        total_amount |-> total,
                        status |-> "confirmed"]}]

\* make_reservation with the confirmation number random.choices drew:
\* what it raises (None when nothing), the reservations table it leaves
\* and the record it returns (a set: empty when it raised)
db_make_reservation(conf_num, guest_name, guest_email, guest_phone, room_type_id, check_in, check_out, num_guests, special_requests) ==
    IF ~(Parses(check_in) /\ Parses(check_out))
    THEN [raised |-> "ValueError", reservations |-> reservations, ret |-> {}]
    ELSE IF room_type_id \notin DOMAIN room_types
    THEN [raised |-> "TypeError", reservations |-> reservations, ret |-> {}]
    ELSE IF conf_num \in DOMAIN reservations
    THEN [raised |-> "IntegrityError", reservations |-> reservations, ret |-> {}]
    ELSE LET nights == DayValue(check_out) - DayValue(check_in)
             total  == Total(room_types[room_type_id].base_rate, nights)
         IN  [raised |-> None,
              reservations |->
                  reservations @@
                  (conf_num :> NewRow(guest_name, guest_email, guest_phone,
                                      room_type_id, check_in, check_out,
                                      num_guests, total, special_requests)),
              ret |-> {[confirmation_number |-> conf_num,
                        guest_name |-> guest_name,
                        room_type |-> room_type_id,
                        check_in |-> check_in,
                        check_out |-> check_out,
                        nights |-> nights,
                        total_amount |-> total,
                        status |-> "confirmed"]}]

\* get_reservation: the row (joined with its room type) whose key is the
\* upper-cased argument, as a set: empty when there is none
db_get_reservation(confirmation_number) ==
    {[confirmation_number |-> k,
      guest_name |-> reservations[k].guest_name,
      guest_email |-> reservations[k].guest_email,
      guest_phone |-> reservations[k].guest_phone,
      room_number |-> reservations[k].room_number,
      room_type_id |-> reservations[k].room_type_id,
      check_in_date |-> reservations[k].check_in_date,
      check_out_date |-> reservations[k].check_out_date,
      num_guests |-> reservations[k].num_guests,
      status |-> reservations[k].status,
      total_amount |-> reservations[k].total_amount,
      special_requests |-> reservations[k].special_requests,
      room_type_name |-> room_types[reservations[k].room_type_id].name,
      base_rate |-> room_types[reservations[k].room_type_id].base_rate] :
     k \in {k \in DOMAIN reservations :
               /\ k = Upper(confirmation_number)
               /\ reservations[k].room_type_id \in DOMAIN room_types}}

\* a mutant of CancelRows: any reservation that is not yet cancelled
CancelRowsAnyStatus(key) ==
    {k \in DOMAIN reservations : k = key /\ reservations[k].status # "cancelled"}

\* a mutant of CancelRows: the UPDATE has no condition on the status
CancelRowsAnyRow(key) == {k \in DOMAIN reservations : k = key}

\* the rows the UPDATE of cancel_reservation matches
CancelRows(key) ==
    {k \in DOMAIN reservations : k = key /\ reservations[k].status = "confirmed"}

\* a mutant of db_cancel_reservation: the UPDATE also sets total_amount to 0
db_cancel_reservation_refund(confirmation_number) ==
    LET hit == CancelRows(Upper(confirmation_number))
    IN  [reservations |->
            [k \in DOMAIN reservations |->
                IF k \in hit
                THEN [reservations[k] EXCEPT !.status = "cancelled",
                                             !.total_amount = 0]
                ELSE reservations[k]],
         ret |-> Cardinality(hit) > 0]

\* cancel_reservation: the table it leaves and what it returns
db_cancel_reservation(confirmation_number) ==
    LET hit == CancelRows(Upper(confirmation_number))
    IN  [reservations |->
            [k \in DOMAIN reservations |->
                IF k \in hit
                THEN [reservations[k] EXCEPT !.status = "cancelled"]
                ELSE reservations[k]],
         ret |-> Cardinality(hit) > 0]

\* a mutant of ActiveRows: any reservation that exists
ActiveRowsAnyStatus(key) == {k \in DOMAIN reservations : k = key}

\* a mutant of ActiveRows: a confirmed reservation only
ActiveRowsConfirmedOnly(key) ==
    {k \in DOMAIN reservations : k = key /\ reservations[k].status = "confirmed"}

\* the rows the SELECT of submit_service_request finds
ActiveRows(key) ==
    {k \in DOMAIN reservations :
        k = key /\ reservations[k].status \in {"confirmed", "checked_in"}}

\* a mutant of NextRequestId: the id of the last row is given again
NextRequestIdOfLastRow ==
    IF service_requests = <<>> THEN 1
    ELSE service_requests[Len(service_requests)].id

\* INTEGER PRIMARY KEY AUTOINCREMENT: one more than the largest id
NextRequestId ==
    IF service_requests = <<>> THEN 1
    ELSE 1 + service_requests[Len(service_requests)].id

\* a mutant of InsertRequest: the confirmation number is stored as passed
InsertRequestAsPassed(confirmation_number, request_type, description) ==
    [service_requests |->
        Append(service_requests,
               [id |-> NextRequestId,
                confirmation_number |-> confirmation_number,
                request_type |-> request_type,
                description |-> description,
                status |-> "pending"]),
     ret |-> {[request_id |-> NextRequestId,
               confirmation_number |-> Upper(confirmation_number),
               request_type |-> request_type,
               description |-> description,
               status |-> "pending"]}]

\* the INSERT of submit_service_request and the record returned after it
InsertRequest(confirmation_number, request_type, description) ==
    [service_requests |->
        Append(service_requests,
               [id |-> NextRequestId,
                confirmation_number |-> Upper(confirmation_number),
                request_type |-> request_type,
                description |-> description,
                status |-> "pending"]),
     ret |-> {[request_id |-> NextRequestId,
               confirmation_number |-> Upper(confirmation_number),
               request_type |-> request_type,
               description |-> description,
               status |-> "pending"]}]

\* a mutant of db_submit_service_request: the INSERT runs before the
\* reservation is looked up
db_submit_service_request_insert_first(confirmation_number, request_type, description) ==
    [service_requests |->
        InsertRequest(confirmation_number, request_type, description).service_requests,
     ret |-> IF ActiveRows(Upper(confirmation_number)) = {}
             THEN {}
             ELSE InsertRequest(confirmation_number, request_type, description).ret]

\* submit_service_request: the table it leaves and the record it returns
\* (a set: empty for None)
db_submit_service_request(confirmation_number, request_type, description) ==
    IF ActiveRows(Upper(confirmation_number)) = {}
    THEN [service_requests |-> service_requests, ret |-> {}]
    ELSE InsertRequest(confirmation_number, request_type, description)

\* the order the room types were inserted in, which SELECT * returns them in
RoomTypeOrder == <<"standard", "deluxe", "suite", "family">>

\* get_room_types: every row of room_types
db_get_room_types ==
    [i \in 1..Len(RoomTypeOrder) |->
        [id |-> RoomTypeOrder[i],
         name |-> room_types[RoomTypeOrder[i]].name,
         base_rate |-> room_types[RoomTypeOrder[i]].base_rate,
         max_occupancy |-> room_types[RoomTypeOrder[i]].max_occupancy]]

\* get_hotel_info: the decoded value under a truthy key (a set: empty for
\* None), or every key with its decoded value
db_get_hotel_info(key) ==
    IF Truthy(key)
    THEN IF key \in DOMAIN hotel_info THEN {hotel_info[key]} ELSE {}
    ELSE {hotel_info}

\* a mutant of init_database: the sample data is written whatever the store
\* holds
init_database_reseed ==
    [raised |-> None, room_types |-> SeedRoomTypes, rooms |-> SeedRooms,
     reservations |-> SeedReservations, hotel_info |-> SeedHotelInfo]

\* init_database: CREATE TABLE IF NOT EXISTS keeps the tables there are,
\* and the sample data is inserted only when room_types has no row; its
\* INSERTs raise on a row whose key is already in a table
init_database ==
    IF DOMAIN room_types # {}
    THEN [raised |-> None, room_types |-> room_types, rooms |-> rooms,
          reservations |-> reservations, hotel_info |-> hotel_info]
    ELSE IF \/ DOMAIN rooms \cap DOMAIN SeedRooms # {}
            \/ DOMAIN reservations \cap DOMAIN SeedReservations # {}
            \/ DOMAIN hotel_info \cap DOMAIN SeedHotelInfo # {}
    THEN [raised |-> "IntegrityError", room_types |-> room_types, rooms |-> rooms,
          reservations |-> reservations, hotel_info |-> hotel_info]
    ELSE [raised |-> None, room_types |-> SeedRoomTypes,
          rooms |-> rooms @@ SeedRooms,
          reservations |-> reservations @@ SeedReservations,
          hotel_info |-> hotel_info @@ SeedHotelInfo]

----------------------------------------------------------------------------
(* The tool facade: server.py.  A response is the kind of text returned    *)
(* (one kind per message of the code) and the values the text is built of. *)

Response(kind, data) == [kind |-> kind, data |-> data]

\* a mutant of InPast: today counts as past
InPastOrToday(check_in_date) == DayValue(check_in_date) <= Today

\* the check-in date lies before today: check_in.date() < datetime.now().date()
InPast(check_in_date) == DayValue(check_in_date) < Today

\* a mutant of ExceedsOccupancy: the guest count is not looked at
NeverExceeds(num_guests, room_type) == FALSE

\* num_guests > room_types[room_type]['max_occupancy']
ExceedsOccupancy(num_guests, room_type) ==
    num_guests > room_types[room_type].max_occupancy

\* a mutant of InvalidRange: a stay of no night passes
InvalidRangeStrict(check_in_date, check_out_date) ==
    DayValue(check_in_date) > DayValue(check_out_date)

\* check_in >= check_out, of the parsed dates
InvalidRange(check_in_date, check_out_date) ==
    DayValue(check_in_date) >= DayValue(check_out_date)

\* by_type of check_availability: one group per room type, in the order the
\* types first appear in the rows, each with the rooms of its type in the
\* order of the rows
ByType(available, nights) ==
    LET firsts == {i \in DOMAIN available :
                      \A j \in 1..(i - 1) :
                          available[j].room_type_id # available[i].room_type_id}
        group(f) ==
            LET same == {i \in DOMAIN available :
                            available[i].room_type_id = available[f].room_type_id}
            IN  [room_type_id |-> available[f].room_type_id,
                 name |-> available[f].room_type_name,
                 rate |-> available[f].base_rate,
                 total |-> available[f].base_rate * nights,
                 max_occupancy |-> available[f].max_occupancy,
                 count |-> Cardinality(same),
                 rooms |-> [m \in 1..Cardinality(same) |->
                     available[CHOOSE i \in same :
                         Cardinality({j \in same : j < i}) = m - 1].room_number]]
    IN  [n \in 1..Cardinality(firsts) |->
            group(CHOOSE f \in firsts : Cardinality({j \in firsts : j < f}) = n - 1)]

\* the tool check_availability
check_availability(check_in_date, check_out_date, room_type) ==
    IF ~(Parses(check_in_date) /\ Parses(check_out_date))
    THEN Response("InvalidFormat", <<>>)
    ELSE IF InvalidRange(check_in_date, check_out_date)
    THEN Response("InvalidRange", <<>>)
    ELSE IF InPast(check_in_date)
    THEN Response("PastDate", <<>>)
    ELSE LET available == db_check_availability(check_in_date, check_out_date, room_type)
             nights == DayValue(check_out_date) - DayValue(check_in_date)
         IN  IF available = <<>>
             THEN Response("NoRooms", <<>>)
             ELSE Response("Availability", ByType(available, nights))

\* a mutant of booking_guards: the room type is looked up before the
\* availability
booking_guards_type_first(room_type, check_in_date, check_out_date, num_guests) ==
    IF ~(Parses(check_in_date) /\ Parses(check_out_date))
    THEN {Response("InvalidFormat", <<>>)}
    ELSE IF InvalidRange(check_in_date, check_out_date)
    THEN {Response("InvalidRange", <<>>)}
    ELSE IF InPast(check_in_date)
    THEN {Response("PastDate", <<>>)}
    ELSE IF room_type \notin DOMAIN room_types
    THEN {Response("UnknownRoomType", <<>>)}
    ELSE IF db_check_availability(check_in_date, check_out_date, room_type) = <<>>
    THEN {Response("Unavailable", <<>>)}
    ELSE IF ExceedsOccupancy(num_guests, room_type)
    THEN {Response("OccupancyExceeded", <<>>)}
    ELSE {}

\* the guards of the tool make_reservation, which only read: the response
\* of the first that fails (a set: empty when all pass)
booking_guards(room_type, check_in_date, check_out_date, num_guests) ==
    IF ~(Parses(check_in_date) /\ Parses(check_out_date))
    THEN {Response("InvalidFormat", <<>>)}
    ELSE IF InvalidRange(check_in_date, check_out_date)
    THEN {Response("InvalidRange", <<>>)}
    ELSE IF InPast(check_in_date)
    THEN {Response("PastDate", <<>>)}
    ELSE IF db_check_availability(check_in_date, check_out_date, room_type) = <<>>
    THEN {Response("Unavailable", <<>>)}
    ELSE IF room_type \notin DOMAIN room_types
    THEN {Response("UnknownRoomType", <<>>)}
    ELSE IF ExceedsOccupancy(num_guests, room_type)
    THEN {Response("OccupancyExceeded", <<>>)}
    ELSE {}

\* a mutant of booking_insert: the availability is read again, counting the
\* active reservations of the room type that hold no room yet, in one
\* transaction with the INSERT
booking_insert_atomic(conf_num, guest_name, guest_email, guest_phone, room_type, check_in_date, check_out_date, num_guests, special_requests) ==
    LET unassigned == {k \in DOMAIN reservations :
                          /\ reservations[k].room_number = NULL
                          /\ reservations[k].room_type_id = room_type
                          /\ reservations[k].status \in {"confirmed", "checked_in"}
                          /\ TextLt(reservations[k].check_in_date, check_out_date)
                          /\ TextLt(check_in_date, reservations[k].check_out_date)}
        result == db_make_reservation(conf_num, guest_name, guest_email,
                      guest_phone, room_type, check_in_date,
                      check_out_date, num_guests, special_requests)
    IN  IF Cardinality(unassigned)
              >= Cardinality(AvailableRooms(check_in_date, check_out_date, room_type))
        THEN [raised |-> None, reservations |-> reservations,
              resp |-> {Response("Unavailable", <<>>)}]
        ELSE IF result.raised # None
        THEN [raised |-> result.raised, reservations |-> result.reservations,
              resp |-> {}]
        ELSE [raised |-> None, reservations |-> result.reservations,
              resp |-> {Response("Confirmed",
                  [result |-> result.ret,
                   room_type_name |-> room_types[room_type].name,
                   num_guests |-> num_guests])}]

\* the tool make_reservation once its guards have passed: the call of the
\* store, with the confirmation number it draws, and the response.  Only a
\* ValueError is caught.
booking_insert(conf_num, guest_name, guest_email, guest_phone, room_type, check_in_date, check_out_date, num_guests, special_requests) ==
    LET result == db_make_reservation(conf_num, guest_name, guest_email,
                      guest_phone, room_type, check_in_date,
                      check_out_date, num_guests, special_requests)
    IN  IF result.raised = "ValueError"
        THEN [raised |-> None, reservations |-> reservations,
              resp |-> {Response("InvalidFormat", <<>>)}]
        ELSE IF result.raised # None
        THEN [raised |-> result.raised, reservations |-> result.reservations,
              resp |-> {}]
        ELSE [raised |-> None, reservations |-> result.reservations,
              resp |-> {Response("Confirmed",
                  [result |-> result.ret,
                   room_type_name |-> room_types[room_type].name,
                   num_guests |-> num_guests])}]

\* the tool make_reservation, with the confirmation number the store draws:
\* what it raises (None when it returns), the reservations table it leaves
\* and its response
make_reservation(conf_num, guest_name, guest_email, guest_phone, room_type, check_in_date, check_out_date, num_guests, special_requests) ==
    LET refused == booking_guards(room_type, check_in_date, check_out_date, num_guests)
    IN  IF refused # {}
        THEN [raised |-> None, reservations |-> reservations, resp |-> refused]
        ELSE booking_insert(conf_num, guest_name, guest_email, guest_phone,
                            room_type, check_in_date, check_out_date,
                            num_guests, special_requests)

\* the tool get_reservation
get_reservation(confirmation_number) ==
    LET reservation == db_get_reservation(confirmation_number)
    IN  IF reservation = {}
        THEN Response("NotFound", {})
        ELSE Response("Details", reservation)

\* a mutant of cancel_reservation: the status is not looked at before the
\* store is asked to cancel
cancel_reservation_unchecked(confirmation_number) ==
    LET reservation == db_get_reservation(confirmation_number)
        success == db_cancel_reservation(confirmation_number)
    IN  IF reservation = {}
        THEN [reservations |-> reservations, resp |-> Response("NotFound", {})]
        ELSE IF success.ret
        THEN [reservations |-> success.reservations,
              resp |-> Response("Cancelled",
                  {[confirmation_number |-> confirmation_number,
                    guest_name |-> r.guest_name,
                    check_in_date |-> r.check_in_date,
                    check_out_date |-> r.check_out_date] :
                   r \in reservation})]
        ELSE [reservations |-> success.reservations,
              resp |-> Response("UnableToCancel", {})]

\* the checks of the tool cancel_reservation on the reservation it read: the
\* response refusing the cancel (a set: empty when the status is confirmed)
cancel_refusal(reservation) ==
    LET status == (CHOOSE r \in reservation : TRUE).status
    IN  IF reservation = {} THEN {Response("NotFound", {})}
        ELSE IF status = "cancelled" THEN {Response("AlreadyCancelled", {})}
        ELSE IF status = "checked_in" THEN {Response("AlreadyCheckedIn", {})}
        ELSE IF status = "checked_out" THEN {Response("AlreadyCheckedOut", {})}
        ELSE {}

\* the tool cancel_reservation once the checks have passed: the call of the
\* store and the response, built of the reservation read before
cancel_update(confirmation_number, reservation) ==
    LET success == db_cancel_reservation(confirmation_number)
    IN  IF success.ret
        THEN [reservations |-> success.reservations,
              resp |-> Response("Cancelled",
                  {[confirmation_number |-> confirmation_number,
                    guest_name |-> r.guest_name,
                    check_in_date |-> r.check_in_date,
                    check_out_date |-> r.check_out_date] :
                   r \in reservation})]
        ELSE [reservations |-> success.reservations,
              resp |-> Response("UnableToCancel", {})]

\* the tool cancel_reservation: the table it leaves and its response
cancel_reservation(confirmation_number) ==
    LET reservation == db_get_reservation(confirmation_number)
        refused == cancel_refusal(reservation)
    IN  IF refused # {}
        THEN [reservations |-> reservations, resp |-> The(refused)]
        ELSE cancel_update(confirmation_number, reservation)

valid_types == {"room_service", "housekeeping", "maintenance", "concierge"}

\* the tool submit_service_request: the table it leaves and its response
submit_service_request(confirmation_number, request_type, description) ==
    IF request_type \notin valid_types
    THEN [service_requests |-> service_requests,
          resp |-> Response("InvalidRequestType", {})]
    ELSE LET result == db_submit_service_request(confirmation_number,
                                                 request_type, description)
         IN  IF result.ret = {}
             THEN [service_requests |-> result.service_requests,
                   resp |-> Response("NoActiveReservation", {})]
             ELSE [service_requests |-> result.service_requests,
                   resp |-> Response("Submitted", result.ret)]

\* the tool get_hotel_info: one topic, or the overview
get_hotel_info(topic) ==
    IF Truthy(topic)
    THEN LET info == db_get_hotel_info(topic)
         IN  IF info = {} THEN Response("NoInformation", topic)
             ELSE IF The(info).kind = "list"
             THEN Response("Attractions", [topic |-> topic, items |-> The(info).value])
             ELSE Response("Topic", [topic |-> topic, info |-> The(info).value])
    ELSE Response("Overview", The(db_get_hotel_info(None)))

\* the tool get_room_types
get_room_types == Response("RoomTypes", db_get_room_types)

\* a mutant of attractions_resource: the overview is returned
attractions_resource_overview == get_hotel_info(None)

\* the resources: hotel://info, hotel://rooms, hotel://attractions
hotel_info_resource == get_hotel_info(None)
room_types_resource == get_room_types
attractions_resource == get_hotel_info("local_attractions")

----------------------------------------------------------------------------
(* Inputs of the calls *)

D(n) == FormatDay(n)

\* "1x": no date
BadDate == <<49, 120>>

\* the confirmation numbers random.choices can draw: "CONFAAAAAA", "CONFBBBBBB"
KA == CONF \o [i \in 1..6 |-> 65]
KB == CONF \o [i \in 1..6 |-> 66]
GenConfNums == {KA, KB}

\* "conf001", "confaaaaaa" and "CONFXXXXXX" (the key of no reservation)
conf001 == <<99, 111, 110, 102, 48, 48, 49>>
ka == <<99, 111, 110, 102>> \o [i \in 1..6 |-> 97]
KX == CONF \o [i \in 1..6 |-> 88]

ConfInputs == {CONF001, conf001, ka, KB, KX}
LookupInputs == {conf001, CONF002, ka, KB, KX}
RequestConfInputs == {conf001, ka, KX}
RequestTypeInputs == {"room_service", "valet"}

\* date ranges of the store's calls: inside, at the start of, at the end of
\* and before the seeded stay of CONF001, and one that is no date
DbDatePairs ==
    {<<D(Today), D(Today + 2)>>, <<D(Today + 1), D(Today + 2)>>,
     <<D(Today + 2), D(Today + 3)>>, <<D(Today - 2), D(Today - 1)>>,
     <<BadDate, D(Today + 1)>>}

FilterInputs == {None, "deluxe", "penthouse"}

DbBookingDates ==
    {<<D(Today), D(Today + 2)>>, <<D(Today + 1), D(Today + 2)>>,
     <<BadDate, D(Today + 2)>>}

DbBookingTypes == {<<"standard", 1>>, <<"suite", 3>>, <<"penthouse", 1>>}

\* date ranges of the tools' calls: two that pass the guards, then a bad
\* format on either side, a reversed and an empty range, a past check-in,
\* and a range both reversed and past
GoodDatePairs == {<<D(Today), D(Today + 2)>>, <<D(Today + 1), D(Today + 2)>>}

BadDatePairs ==
    {<<BadDate, D(Today + 1)>>, <<D(Today + 1), BadDate>>,
     <<D(Today + 2), D(Today + 1)>>, <<D(Today + 1), D(Today + 1)>>,
     <<D(Today - 1), D(Today + 1)>>, <<D(Today - 1), D(Today - 2)>>}

\* room type and guest count of a booking
BookingTypes ==
    {<<"standard", 1>>, <<"standard", 5>>, <<"suite", 3>>, <<"deluxe", 5>>,
     <<"penthouse", 1>>, <<"", 1>>, <<None, 1>>}

BookingInputs ==
    (GoodDatePairs \X BookingTypes) \cup (BadDatePairs \X {<<"deluxe", 5>>})
        \cup {<<<<D(Today + 1), D(Today + 1)>>, <<"suite", 3>>>>}

\* date range and room-type filter of an availability query
AvailabilityInputs ==
    (GoodDatePairs \X FilterInputs) \cup (BadDatePairs \X {None})

\* a day as a caller may write it, without the leading zero: strptime
\* takes 2026-1-5 as it takes 2026-01-05
Unpadded(d) == IF d < 10 THEN <<48 + d>> ELSE FormatDay(d)

\* dates from today on, in both forms where there are two
DateForms ==
    {D(Today), Unpadded(Today), D(Today + 1), Unpadded(Today + 1),
     D(Today + 2), D(Today + 3)}

\* availability queries over those dates
DateFormInputs == (DateForms \X DateForms) \X {None, "deluxe"}

\* the key of a store lookup of hotel facts, the topic of the tool: none,
\* a text fact, a list fact, and one the store does not hold
HotelInfoInputs == {None, "name", "local_attractions", "minibar"}

\* the processes serving callers over the one database file
Callers == {1, 2}

\* a caller between two calls
Idle == [pc |-> "idle"]

\* the bookings, and the confirmation numbers named, of the calls that run
\* side by side
ConcBookingInputs ==
    (GoodDatePairs \X {<<"suite", 3>>})
        \cup {<<<<D(Today), D(Today + 2)>>, <<"standard", 5>>>>}
ConcConfInputs == {CONF002, ka}

Call(op, args, raised, ret) ==
    [op |-> op, args |-> args, raised |-> raised, ret |-> ret]

----------------------------------------------------------------------------
(* Initial states *)

\* init_database on an empty store: the sample data
Init ==
    /\ room_types = SeedRoomTypes
    /\ rooms = SeedRooms
    /\ reservations = SeedReservations
    /\ service_requests = <<>>
    /\ hotel_info = SeedHotelInfo
    /\ last = Call("init_database", <<>>, None, {})
    /\ pending = [c \in Callers |-> Idle]

\* init_database on a store that already holds data: it seeds nothing, and
\* the rows are whatever the schema allows.  Here: the sample data, with
\* CONF001 assigned room 203 in any status, and room 203 in any status.
InitStore ==
    \E st \in {"available", "occupied", "maintenance"},
       rs \in {"confirmed", "checked_in", "checked_out", "cancelled"} :
        /\ room_types = SeedRoomTypes
        /\ rooms = [SeedRooms EXCEPT ![203].status = st]
        /\ reservations = [SeedReservations EXCEPT ![CONF001].room_number = 203,
                                                   ![CONF001].status = rs]
        /\ service_requests = <<>>
        /\ hotel_info = SeedHotelInfo
        /\ last = Call("init_database", <<>>, None, {})
        /\ pending = [c \in Callers |-> Idle]

----------------------------------------------------------------------------
(* Calls of the store *)

DbCheckAvailability ==
    \E p \in DbDatePairs, room_type \in FilterInputs :
        /\ last' = Call("db.check_availability",
                        [check_in |-> p[1], check_out |-> p[2], room_type |-> room_type],
                        None,
                        {db_check_availability(p[1], p[2], room_type)})
        /\ UNCHANGED <<tables, pending>>

DbMakeReservation(drawn) ==
    \E conf_num \in drawn, p \in DbBookingDates, t \in DbBookingTypes :
        LET r == db_make_reservation(conf_num, "Test Guest", "test@example.com",
                                     "555-0000", t[1], p[1], p[2], t[2], None)
        IN  /\ reservations' = r.reservations
            /\ last' = Call("db.make_reservation",
                            [guest_name |-> "Test Guest", room_type_id |-> t[1],
                             check_in |-> p[1], check_out |-> p[2], num_guests |-> t[2]],
                            r.raised, r.ret)
            /\ UNCHANGED <<room_types, rooms, service_requests, hotel_info, pending>>

DbGetReservation ==
    \E c \in LookupInputs :
        /\ last' = Call("db.get_reservation", [confirmation_number |-> c],
                        None, db_get_reservation(c))
        /\ UNCHANGED <<tables, pending>>

DbCancelReservation ==
    \E c \in ConfInputs :
        LET r == db_cancel_reservation(c)
        IN  /\ reservations' = r.reservations
            /\ last' = Call("db.cancel_reservation", [confirmation_number |-> c],
                            None, {r.ret})
            /\ UNCHANGED <<room_types, rooms, service_requests, hotel_info, pending>>

\* submit_service_request, on a store let hold `max` service requests
DbSubmitServiceRequestUpTo(max) ==
    \E c \in RequestConfInputs, t \in RequestTypeInputs :
        LET r == db_submit_service_request(c, t, "Extra towels please")
        IN  /\ Len(r.service_requests) <= max
            /\ service_requests' = r.service_requests
            /\ last' = Call("db.submit_service_request",
                            [confirmation_number |-> c, request_type |-> t],
                            None, r.ret)
            /\ UNCHANGED <<room_types, rooms, reservations, hotel_info, pending>>

DbSubmitServiceRequest == DbSubmitServiceRequestUpTo(MaxRequests)

\* init_database, called again (at the start of a server process)
InitDatabase ==
    LET r == init_database
    IN  /\ room_types' = r.room_types
        /\ rooms' = r.rooms
        /\ reservations' = r.reservations
        /\ hotel_info' = r.hotel_info
        /\ last' = Call("init_database", <<>>, r.raised, {})
        /\ UNCHANGED <<service_requests, pending>>

DbGetRoomTypes ==
    /\ last' = Call("db.get_room_types", <<>>, None, {db_get_room_types})
    /\ UNCHANGED <<tables, pending>>

DbGetHotelInfo ==
    \E key \in HotelInfoInputs :
        /\ last' = Call("db.get_hotel_info", [key |-> key], None,
                        db_get_hotel_info(key))
        /\ UNCHANGED <<tables, pending>>

----------------------------------------------------------------------------
(* Calls of the tools *)

\* check_availability, its arguments drawn from `inputs`
CheckAvailabilityOf(inputs) ==
    \E a \in inputs :
        /\ last' = Call("check_availability",
                        [check_in |-> a[1][1], check_out |-> a[1][2], room_type |-> a[2]],
                        None,
                        {check_availability(a[1][1], a[1][2], a[2])})
        /\ UNCHANGED <<tables, pending>>

CheckAvailability == CheckAvailabilityOf(AvailabilityInputs)

\* a mutant of MakeReservation: a confirmed booking marks the first
\* available room of the type occupied
MakeReservationOccupiesRoom(drawn) ==
    \E conf_num \in drawn, b \in BookingInputs :
        LET r == make_reservation(conf_num, "Test Guest", "test@example.com",
                                  "555-0000", b[2][1], b[1][1], b[1][2], b[2][2], None)
            free == AvailableRooms(b[1][1], b[1][2], b[2][1])
        IN  /\ reservations' = r.reservations
            /\ last' = Call("make_reservation",
                            [guest_name |-> "Test Guest", room_type |-> b[2][1],
                             check_in |-> b[1][1], check_out |-> b[1][2],
                             num_guests |-> b[2][2]],
                            r.raised, r.resp)
            /\ rooms' = IF r.reservations # reservations
                        THEN [rooms EXCEPT ![CHOOSE n \in free :
                                                \A m \in free : n <= m].status
                                              = "occupied"]
                        ELSE rooms
            /\ UNCHANGED <<room_types, service_requests, hotel_info, pending>>

MakeReservation(drawn) ==
    \E conf_num \in drawn, b \in BookingInputs :
        LET r == make_reservation(conf_num, "Test Guest", "test@example.com",
                                  "555-0000", b[2][1], b[1][1], b[1][2], b[2][2], None)
        IN  /\ reservations' = r.reservations
            /\ last' = Call("make_reservation",
                            [guest_name |-> "Test Guest", room_type |-> b[2][1],
                             check_in |-> b[1][1], check_out |-> b[1][2],
                             num_guests |-> b[2][2]],
                            r.raised, r.resp)
            /\ UNCHANGED <<room_types, rooms, service_requests, hotel_info, pending>>

GetReservation ==
    \E c \in LookupInputs :
        /\ last' = Call("get_reservation", [confirmation_number |-> c],
                        None, {get_reservation(c)})
        /\ UNCHANGED <<tables, pending>>

CancelReservation ==
    \E c \in ConfInputs :
        LET r == cancel_reservation(c)
        IN  /\ reservations' = r.reservations
            /\ last' = Call("cancel_reservation", [confirmation_number |-> c],
                            None, {r.resp})
            /\ UNCHANGED <<room_types, rooms, service_requests, hotel_info, pending>>

\* submit_service_request, on a store let hold `max` service requests
SubmitServiceRequestUpTo(max) ==
    \E c \in RequestConfInputs, t \in RequestTypeInputs :
        LET r == submit_service_request(c, t, "Extra towels please")
        IN  /\ Len(r.service_requests) <= max
            /\ service_requests' = r.service_requests
            /\ last' = Call("submit_service_request",
                            [confirmation_number |-> c, request_type |-> t],
                            None, {r.resp})
            /\ UNCHANGED <<room_types, rooms, reservations, hotel_info, pending>>

SubmitServiceRequest == SubmitServiceRequestUpTo(MaxRequests)

GetRoomTypes ==
    /\ last' = Call("get_room_types", <<>>, None, {get_room_types})
    /\ UNCHANGED <<tables, pending>>

GetHotelInfo ==
    \E topic \in HotelInfoInputs :
        /\ last' = Call("get_hotel_info", [topic |-> topic], None,
                        {get_hotel_info(topic)})
        /\ UNCHANGED <<tables, pending>>

\* the resource hotel://info
HotelInfoResource ==
    /\ last' = Call("hotel://info", <<>>, None, {hotel_info_resource})
    /\ UNCHANGED <<tables, pending>>

\* the resource hotel://rooms
RoomTypesResource ==
    /\ last' = Call("hotel://rooms", <<>>, None, {room_types_resource})
    /\ UNCHANGED <<tables, pending>>

\* the resource hotel://attractions
AttractionsResource ==
    /\ last' = Call("hotel://attractions", <<>>, None, {attractions_resource})
    /\ UNCHANGED <<tables, pending>>

----------------------------------------------------------------------------
(* Calls of the tools by several server processes over the one database  *)
(* file.  Each statement of a call runs in its own transaction (sqlite3   *)
(* opens one at the first INSERT or UPDATE, commit closes it), so the     *)
(* reads of a call and its write are two steps, and the statements of     *)
(* other processes run between them.                                      *)

\* make_reservation up to its guards: server.py 118-140
BookingRead(c) ==
    /\ pending[c] = Idle
    /\ \E b \in ConcBookingInputs :
        LET refused == booking_guards(b[2][1], b[1][1], b[1][2], b[2][2])
            args == [guest_name |-> "Test Guest", room_type |-> b[2][1],
                     check_in |-> b[1][1], check_out |-> b[1][2],
                     num_guests |-> b[2][2]]
        IN  IF refused # {}
            THEN /\ last' = Call("make_reservation", args, None, refused)
                 /\ pending' = pending
            ELSE /\ pending' = [pending EXCEPT ![c] =
                        [pc |-> "booking", args |-> args,
                         seen |-> DOMAIN reservations]]
                 /\ last' = last
    /\ UNCHANGED tables

\* make_reservation from the call of the store on: server.py 143-169
BookingWrite(c, drawn) ==
    /\ pending[c].pc = "booking"
    /\ \E conf_num \in drawn :
        LET a == pending[c].args
            r == booking_insert(conf_num, "Test Guest", "test@example.com",
                                "555-0000", a.room_type, a.check_in,
                                a.check_out, a.num_guests, None)
        IN  /\ reservations' = r.reservations
            /\ last' = [op |-> "make_reservation", args |-> a,
                        raised |-> r.raised, ret |-> r.resp,
                        seen |-> pending[c].seen]
    /\ pending' = [pending EXCEPT ![c] = Idle]
    /\ UNCHANGED <<room_types, rooms, service_requests, hotel_info>>

\* cancel_reservation up to its checks: server.py 228-241
CancelRead(c) ==
    /\ pending[c] = Idle
    /\ \E k \in ConcConfInputs :
        LET reservation == db_get_reservation(k)
            refused == cancel_refusal(reservation)
        IN  IF refused # {}
            THEN /\ last' = Call("cancel_reservation",
                                 [confirmation_number |-> k], None, refused)
                 /\ pending' = pending
            ELSE /\ pending' = [pending EXCEPT ![c] =
                        [pc |-> "cancel", confirmation_number |-> k,
                         reservation |-> reservation]]
                 /\ last' = last
    /\ UNCHANGED tables

\* cancel_reservation from the call of the store on: server.py 243-258
CancelWrite(c) ==
    /\ pending[c].pc = "cancel"
    /\ LET r == cancel_update(pending[c].confirmation_number,
                              pending[c].reservation)
       IN  /\ reservations' = r.reservations
           /\ last' = Call("cancel_reservation",
                           [confirmation_number |-> pending[c].confirmation_number],
                           None, {r.resp})
    /\ pending' = [pending EXCEPT ![c] = Idle]
    /\ UNCHANGED <<room_types, rooms, service_requests, hotel_info>>

\* submit_service_request up to the SELECT of the store: server.py 278-281,
\* database.py 302-309
RequestRead(c) ==
    /\ pending[c] = Idle
    /\ Len(service_requests)
           + Cardinality({d \in Callers : pending[d].pc = "request"}) < MaxRequests
    /\ \E k \in ConcConfInputs, t \in RequestTypeInputs :
        LET args == [confirmation_number |-> k, request_type |-> t]
        IN  IF t \notin valid_types
            THEN /\ last' = Call("submit_service_request", args, None,
                                 {Response("InvalidRequestType", {})})
                 /\ pending' = pending
            ELSE IF ActiveRows(Upper(k)) = {}
            THEN /\ last' = Call("submit_service_request", args, None,
                                 {Response("NoActiveReservation", {})})
                 /\ pending' = pending
            ELSE /\ pending' = [pending EXCEPT ![c] =
                        [pc |-> "request", args |-> args]]
                 /\ last' = last
    /\ UNCHANGED tables

\* submit_service_request from the INSERT of the store on: database.py
\* 311-326, server.py 288-306
RequestWrite(c) ==
    /\ pending[c].pc = "request"
    /\ LET r == InsertRequest(pending[c].args.confirmation_number,
                              pending[c].args.request_type, "Extra towels please")
       IN  /\ service_requests' = r.service_requests
           /\ last' = Call("submit_service_request", pending[c].args, None,
                           {Response("Submitted", r.ret)})
    /\ pending' = [pending EXCEPT ![c] = Idle]
    /\ UNCHANGED <<room_types, rooms, reservations, hotel_info>>

----------------------------------------------------------------------------
(* Specifications *)

\* the calls of the store, the confirmation numbers drawn being among `drawn`
StoreCalls(drawn) ==
    \/ DbCheckAvailability
    \/ DbMakeReservation(drawn)
    \/ DbGetReservation
    \/ DbCancelReservation
    \/ DbSubmitServiceRequest
    \/ DbGetRoomTypes
    \/ DbGetHotelInfo
    \/ InitDatabase

\* the calls of the tools
ToolCalls(drawn) ==
    \/ CheckAvailability
    \/ MakeReservation(drawn)
    \/ GetReservation
    \/ CancelReservation
    \/ SubmitServiceRequest
    \/ GetRoomTypes
    \/ GetHotelInfo
    \/ HotelInfoResource
    \/ RoomTypesResource
    \/ AttractionsResource

Next == ToolCalls(GenConfNums)

\* the server on a freshly seeded store
Spec == Init /\ [][Next]_vars

\* the tools on a store that already held data
SpecTools == InitStore /\ [][ToolCalls({KA})]_vars

\* the store's functions, called on a store that already held data
SpecStore == InitStore /\ [][StoreCalls({KA})]_vars

\* the store's functions and the tools together, on a store that already
\* held reservations in every status (and the seeded rooms)
InitAll == InitStore /\ rooms = SeedRooms
AllCalls == StoreCalls({KA}) \/ ToolCalls({KA})
SpecAll == InitAll /\ [][AllCalls]_vars

\* the store's functions and the tools on a freshly seeded store that is
\* let hold MaxRequestsKept service requests
RequestsCalls ==
    \/ DbMakeReservation({KA})
    \/ DbCancelReservation
    \/ DbSubmitServiceRequestUpTo(MaxRequestsKept)
    \/ InitDatabase
    \/ MakeReservation({KA})
    \/ CancelReservation
    \/ SubmitServiceRequestUpTo(MaxRequestsKept)
SpecRequests == Init /\ [][RequestsCalls]_vars

\* availability queries with dates in either form, on stores where room 203
\* is held by CONF001
DateCalls == CheckAvailabilityOf(DateFormInputs)
SpecDates == InitStore /\ [][DateCalls]_vars

\* the steps of the tools' calls made side by side
ConcurrentCalls ==
    \E c \in Callers :
        \/ BookingRead(c)
        \/ BookingWrite(c, GenConfNums)
        \/ CancelRead(c)
        \/ CancelWrite(c)
        \/ RequestRead(c)
        \/ RequestWrite(c)

\* several server processes on a freshly seeded store
SpecConcurrent == Init /\ [][ConcurrentCalls]_vars

----------------------------------------------------------------------------
(* What the claims are stated with: calendar dates and letter case, told   *)
(* without the store's text comparison and without str.upper()             *)

\* a date text as str(date) writes it
Canonical(s) == Parses(s) /\ s = FormatDay(DayValue(s))

\* the stays [a1, a2) and [b1, b2) share a night
StaysOverlap(a1, a2, b1, b2) ==
    DayValue(a1) < DayValue(b2) /\ DayValue(b1) < DayValue(a2)

FoldChar(c) == IF c >= 65 /\ c <= 90 THEN c + 32 ELSE c

\* the texts a and b are equal but for the case of their letters
SameButCase(a, b) ==
    Len(a) = Len(b) /\ \A i \in DOMAIN a : FoldChar(a[i]) = FoldChar(b[i])

\* the confirmation numbers of the store that match the text c
Matching(c) == {k \in DOMAIN reservations : SameButCase(k, c)}

\* the room numbers of a result
RoomNumbers(rows) == {rows[i].room_number : i \in DOMAIN rows}

----------------------------------------------------------------------------
(* C1 *)

\* the rooms the claim expects of checkAvailability
ExpectedRooms(check_in, check_out, room_type) ==
    {n \in DOMAIN rooms :
        /\ rooms[n].status = "available"
        /\ \A k \in DOMAIN reservations :
              ~ /\ reservations[k].room_number = n
                /\ reservations[k].status \in {"confirmed", "checked_in"}
                /\ StaysOverlap(reservations[k].check_in_date,
                                reservations[k].check_out_date,
                                check_in, check_out)
        /\ room_type \notin {None, ""} => rooms[n].room_type_id = room_type}

\* C1: for every store, every range of dates written as str(date) writes
\* them and every room-type filter, db.check_availability returns exactly
\* the rooms whose status is 'available' and that no confirmed or checked_in
\* reservation assigned to them overlaps, the overlap being half-open on
\* calendar dates: a stay that ends on the check-in date or starts on the
\* check-out date excludes nothing, nor does a cancelled or checked_out one.
C1_AvailabilityIsExact ==
    (/\ last.op = "db.check_availability"
     /\ Canonical(last.args.check_in)
     /\ Canonical(last.args.check_out))
    => /\ RoomNumbers(The(last.ret))
            = ExpectedRooms(last.args.check_in, last.args.check_out,
                            last.args.room_type)
       /\ Len(The(last.ret)) = Cardinality(RoomNumbers(The(last.ret)))

\* C1's case: room 203 is available and held by an active stay; a query
\* that starts on that stay's check-out date returns the room, in a store
\* where the same room is left out of what a query inside the stay returns
C1_Witness ==
    /\ last.op = "db.check_availability"
    /\ rooms[203].status = "available"
    /\ reservations[CONF001].room_number = 203
    /\ reservations[CONF001].status = "checked_in"
    /\ last.args.check_in = reservations[CONF001].check_out_date
    /\ 203 \in RoomNumbers(The(last.ret))
    /\ 203 \notin RoomNumbers(db_check_availability(D(Today), D(Today + 2), None))

----------------------------------------------------------------------------
(* C2 *)

----------------------------------------------------------------------------
(* C3 *)

\* C3: db.cancel_reservation changes a reservation only when its status is
\* confirmed, setting it to cancelled, and returns true exactly when a row
\* changed; for a confirmation number that is absent, or whose reservation
\* is cancelled, checked_in or checked_out, it returns false and leaves the
\* store as it was.  The confirmation number matches whatever its case.
C3_CancelOnlyFromConfirmed ==
    [][last'.op = "db.cancel_reservation"
       => LET hit == {k \in Matching(last'.args.confirmation_number) :
                         reservations[k].status = "confirmed"}
          IN  /\ last'.ret = {hit # {}}
              /\ DOMAIN reservations' = DOMAIN reservations
              /\ \A k \in DOMAIN reservations :
                    reservations'[k] =
                        IF k \in hit
                        THEN [reservations[k] EXCEPT !.status = "cancelled"]
                        ELSE reservations[k]
              /\ UNCHANGED <<room_types, rooms, service_requests, hotel_info>>
      ]_vars

\* C3's case: a second cancel of a reservation cancelled through its
\* lower-case confirmation number returned false
C3_Witness ==
    /\ last.op = "db.cancel_reservation"
    /\ last.args.confirmation_number = ka
    /\ last.ret = {FALSE}
    /\ KA \in DOMAIN reservations
    /\ reservations[KA].status = "cancelled"

----------------------------------------------------------------------------
(* C4 *)

\* C4: db.submit_service_request succeeds exactly when a reservation with
\* the given confirmation number (whatever its case) exists with status
\* confirmed or checked_in; it then inserts exactly one service request,
\* with status pending, and returns it; otherwise it returns None and
\* inserts nothing.
C4_RequestNeedsActiveReservation ==
    [][last'.op = "db.submit_service_request"
       => LET active == {k \in Matching(last'.args.confirmation_number) :
                            reservations[k].status \in {"confirmed", "checked_in"}}
          IN  /\ (last'.ret # {}) = (active # {})
              /\ active = {} => service_requests' = service_requests
              /\ active # {} =>
                    /\ Len(service_requests') = Len(service_requests) + 1
                    /\ SubSeq(service_requests', 1, Len(service_requests))
                           = service_requests
                    /\ LET new == service_requests'[Len(service_requests')]
                       IN  /\ new.status = "pending"
                           /\ new.confirmation_number \in active
                           /\ new.request_type = last'.args.request_type
                           /\ The(last'.ret).request_id = new.id
                           /\ The(last'.ret).confirmation_number = new.confirmation_number
                           /\ The(last'.ret).request_type = new.request_type
                           /\ The(last'.ret).status = "pending"
              /\ UNCHANGED <<room_types, rooms, reservations, hotel_info>>
      ]_vars

\* C4's case: a request for a checked_in reservation, given in lower case,
\* was stored as pending
C4_Witness ==
    /\ last.op = "db.submit_service_request"
    /\ last.args.confirmation_number = conf001
    /\ reservations[CONF001].status = "checked_in"
    /\ last.ret # {}
    /\ Len(service_requests) = 1
    /\ service_requests[1].status = "pending"
    /\ service_requests[1].confirmation_number = CONF001

----------------------------------------------------------------------------
(* C5 *)

\* C5: every reservation db.make_reservation creates has total amount =
\* nightly rate of its room type x nights, the nights being the day
\* difference check-out minus check-in, whatever else the store holds; the
\* record returned carries the same total.
C5_TotalIsRateTimesNights ==
    /\ \A k \in DOMAIN reservations \ DOMAIN SeedReservations :
          reservations[k].total_amount
              = SeedRoomTypes[reservations[k].room_type_id].base_rate
                  * (DayValue(reservations[k].check_out_date)
                       - DayValue(reservations[k].check_in_date))
    /\ (last.op = "db.make_reservation" /\ last.ret # {})
          => /\ The(last.ret).nights
                    = DayValue(last.args.check_out) - DayValue(last.args.check_in)
             /\ The(last.ret).total_amount
                    = SeedRoomTypes[last.args.room_type_id].base_rate
                        * The(last.ret).nights
             /\ reservations[The(last.ret).confirmation_number].total_amount
                    = The(last.ret).total_amount

\* C5's case: a standard room (149 a night) booked for two nights costs 298
C5_Witness ==
    /\ last.op = "db.make_reservation"
    /\ last.ret # {}
    /\ last.args.room_type_id = "standard"
    /\ The(last.ret).nights = 2
    /\ The(last.ret).total_amount = 298
    /\ reservations[KA].total_amount = 298
    /\ reservations[KA].status = "confirmed"

----------------------------------------------------------------------------
(* C6 *)

\* a text in lower case
Lower(s) == [i \in DOMAIN s |-> FoldChar(s[i])]

\* the row of get_reservation is the stored row of key k
IsStoredRow(row, k) ==
    /\ row.confirmation_number = k
    /\ row.guest_name = reservations[k].guest_name
    /\ row.check_in_date = reservations[k].check_in_date
    /\ row.check_out_date = reservations[k].check_out_date
    /\ row.total_amount = reservations[k].total_amount
    /\ row.status = reservations[k].status

\* C6: for every reservation of the store, seeded or created by
\* db.make_reservation, db.get_reservation called with its confirmation
\* number in upper, lower or mixed case returns that reservation, with the
\* guest name, dates, total and status stored; and a call returns None only
\* for a text that matches no stored confirmation number.
C6_LookupRoundTrip ==
    /\ \A k \in DOMAIN reservations :
          \A c \in {k, Lower(k), [Lower(k) EXCEPT ![1] = k[1]]} :
              /\ Cardinality(db_get_reservation(c)) = 1
              /\ IsStoredRow(The(db_get_reservation(c)), k)
    /\ last.op = "db.get_reservation"
          => /\ (last.ret = {}) = (Matching(last.args.confirmation_number) = {})
             /\ \A row \in last.ret :
                   /\ row.confirmation_number
                          \in Matching(last.args.confirmation_number)
                   /\ IsStoredRow(row, row.confirmation_number)

\* C6's case: the reservation created as CONFAAAAAA was looked up as
\* "confaaaaaa" and found
C6_Witness ==
    /\ last.op = "db.get_reservation"
    /\ last.args.confirmation_number = ka
    /\ KA \in DOMAIN reservations
    /\ last.ret # {}
    /\ The(last.ret).guest_name = "Test Guest"
    /\ The(last.ret).confirmation_number = KA

----------------------------------------------------------------------------
(* C7 *)

\* the first guard of the claim's order that a date range fails
DateVerdict(check_in, check_out) ==
    IF ~(Parses(check_in) /\ Parses(check_out)) THEN "InvalidFormat"
    ELSE IF ~(DayValue(check_out) > DayValue(check_in)) THEN "InvalidRange"
    ELSE IF DayValue(check_in) < Today THEN "PastDate"
    ELSE "Pass"

\* the first guard of the claim's order that a booking fails
BookingVerdict(check_in, check_out, room_type, num_guests) ==
    IF DateVerdict(check_in, check_out) # "Pass"
    THEN DateVerdict(check_in, check_out)
    ELSE IF ExpectedRooms(check_in, check_out, room_type) = {} THEN "Unavailable"
    ELSE IF room_type \notin {"standard", "deluxe", "suite", "family"}
    THEN "UnknownRoomType"
    ELSE IF num_guests > SeedRoomTypes[room_type].max_occupancy
    THEN "OccupancyExceeded"
    ELSE "Pass"

\* C7: the tools check_availability and make_reservation answer with the
\* error of the first failing guard, in the order: date format, check-out
\* after check-in, check-in not before today, then for a booking: an
\* available room, a known room type, the guest count within the occupancy.
\* When every guard passes, the availability tool lists the rooms and the
\* booking, unless the store raises, is confirmed.
C7_FirstFailingGuard ==
    [][/\ \A a \in AvailabilityInputs :
            (/\ last'.op = "check_availability"
             /\ last'.args = [check_in |-> a[1][1], check_out |-> a[1][2],
                              room_type |-> a[2]])
            => The(last'.ret).kind =
                  IF DateVerdict(a[1][1], a[1][2]) # "Pass"
                  THEN DateVerdict(a[1][1], a[1][2])
                  ELSE IF ExpectedRooms(a[1][1], a[1][2], a[2]) = {}
                  THEN "NoRooms" ELSE "Availability"
       /\ \A b \in BookingInputs :
            (/\ last'.op = "make_reservation"
             /\ last'.args.check_in = b[1][1]
             /\ last'.args.check_out = b[1][2]
             /\ last'.args.room_type = b[2][1]
             /\ last'.args.num_guests = b[2][2])
            => IF BookingVerdict(b[1][1], b[1][2], b[2][1], b[2][2]) # "Pass"
               THEN /\ last'.raised = None
                    /\ The(last'.ret).kind
                           = BookingVerdict(b[1][1], b[1][2], b[2][1], b[2][2])
               ELSE last'.raised = None => The(last'.ret).kind = "Confirmed"
      ]_vars

\* C7's case: a booking for more guests than the room type takes, of a type
\* with no available room, was answered Unavailable
C7_Witness ==
    /\ last.op = "make_reservation"
    /\ last.args.room_type = "deluxe"
    /\ last.args.num_guests > room_types["deluxe"].max_occupancy
    /\ The(last.ret).kind = "Unavailable"

----------------------------------------------------------------------------
(* C8 *)

\* every reservation's guest count is within its room type's occupancy
OccupancyRespected ==
    \A k \in DOMAIN reservations :
        reservations[k].num_guests
            <= SeedRoomTypes[reservations[k].room_type_id].max_occupancy

\* C8: every reservation the tool make_reservation creates has a guest
\* count within its room type's maximum occupancy; a booking with more
\* guests inserts nothing, and is answered OccupancyExceeded when the
\* guards before the occupancy guard pass.
C8_OccupancyGuard ==
    /\ OccupancyRespected
    /\ [][/\ OccupancyRespected'
          /\ \A b \in BookingInputs :
               (/\ last'.op = "make_reservation"
                /\ last'.args.check_in = b[1][1]
                /\ last'.args.check_out = b[1][2]
                /\ last'.args.room_type = b[2][1]
                /\ last'.args.num_guests = b[2][2]
                /\ b[2][1] \in DOMAIN SeedRoomTypes
                /\ b[2][2] > SeedRoomTypes[b[2][1]].max_occupancy)
               => /\ reservations' = reservations
                  /\ last'.raised = None
                  /\ (/\ DateVerdict(b[1][1], b[1][2]) = "Pass"
                      /\ ExpectedRooms(b[1][1], b[1][2], b[2][1]) # {})
                     => The(last'.ret).kind = "OccupancyExceeded"
         ]_vars

\* C8's case: a suite (at most 4 guests) was booked for 3, and a booking of
\* a standard room (at most 2) for 5 was answered OccupancyExceeded
C8_Witness ==
    /\ last.op = "make_reservation"
    /\ last.args.room_type = "standard"
    /\ last.args.num_guests = 5
    /\ The(last.ret).kind = "OccupancyExceeded"
    /\ KA \in DOMAIN reservations
    /\ reservations[KA].room_type_id = "suite"
    /\ reservations[KA].num_guests = 3

----------------------------------------------------------------------------
(* C9 *)

\* C9: the tool cancel_reservation answers NotFound when no reservation
\* matches the confirmation number, AlreadyCancelled, AlreadyCheckedIn or
\* AlreadyCheckedOut when the matching reservation has that status, each
\* time leaving the store as it was; a confirmed reservation is cancelled
\* and the cancellation is confirmed.
C9_CancelResponses ==
    [][\A c \in ConfInputs :
        (last'.op = "cancel_reservation" /\ last'.args.confirmation_number = c)
        => /\ UNCHANGED <<room_types, rooms, service_requests, hotel_info>>
           /\ IF Matching(c) = {}
              THEN /\ The(last'.ret).kind = "NotFound"
                   /\ reservations' = reservations
              ELSE LET k == The(Matching(c))
                   IN  IF reservations[k].status = "confirmed"
                       THEN /\ The(last'.ret).kind = "Cancelled"
                            /\ The(The(last'.ret).data).guest_name
                                   = reservations[k].guest_name
                            /\ reservations'
                                   = [reservations EXCEPT ![k].status = "cancelled"]
                       ELSE /\ reservations' = reservations
                            /\ The(last'.ret).kind =
                                 CASE reservations[k].status = "cancelled"
                                        -> "AlreadyCancelled"
                                   [] reservations[k].status = "checked_in"
                                        -> "AlreadyCheckedIn"
                                   [] reservations[k].status = "checked_out"
                                        -> "AlreadyCheckedOut"
      ]_vars

\* C9's case: the cancel of a checked_out reservation was refused
C9_Witness ==
    /\ last.op = "cancel_reservation"
    /\ last.args.confirmation_number = conf001
    /\ reservations[CONF001].status = "checked_out"
    /\ The(last.ret).kind = "AlreadyCheckedOut"

----------------------------------------------------------------------------
(* C10 *)

\* C10: a cancelled reservation stays cancelled in every later state,
\* whatever is called: get_reservation reports it cancelled, and a service
\* request against its confirmation number is refused and inserts nothing
\* (refused as NoActiveReservation when the request type is a valid one).
C10_CancelledIsFinal ==
    [][/\ \A k \in DOMAIN reservations :
            reservations[k].status = "cancelled"
            => k \in DOMAIN reservations' /\ reservations'[k].status = "cancelled"
       /\ \A c \in LookupInputs :
            (/\ last'.op = "get_reservation"
             /\ last'.args.confirmation_number = c
             /\ \E k \in Matching(c) : reservations[k].status = "cancelled")
            => /\ The(last'.ret).kind = "Details"
               /\ The(The(last'.ret).data).status = "cancelled"
       /\ \A c \in RequestConfInputs, t \in RequestTypeInputs :
            (/\ last'.op = "submit_service_request"
             /\ last'.args = [confirmation_number |-> c, request_type |-> t]
             /\ \E k \in Matching(c) : reservations[k].status = "cancelled")
            => /\ service_requests' = service_requests
               /\ The(last'.ret).kind \in {"NoActiveReservation", "InvalidRequestType"}
               /\ t \in {"room_service", "housekeeping", "maintenance", "concierge"}
                     => The(last'.ret).kind = "NoActiveReservation"
      ]_vars

\* C10's case: a reservation was booked, cancelled, and a later service
\* request against it, of a valid type, was refused
C10_Witness ==
    /\ last.op = "submit_service_request"
    /\ last.args = [confirmation_number |-> ka, request_type |-> "room_service"]
    /\ KA \in DOMAIN reservations
    /\ reservations[KA].status = "cancelled"
    /\ The(last.ret).kind = "NoActiveReservation"

----------------------------------------------------------------------------
(* C11 *)

\* C11: in every step a reservation that exists keeps existing, and the
\* only change of status a step makes is confirmed -> cancelled: none moves
\* a reservation into or out of checked_in or checked_out, or out of
\* cancelled.
C11_OnlyConfirmedToCancelled ==
    [][/\ DOMAIN reservations \subseteq DOMAIN reservations'
       /\ \A k \in DOMAIN reservations :
            reservations'[k].status # reservations[k].status
            => /\ reservations[k].status = "confirmed"
               /\ reservations'[k].status = "cancelled"
      ]_vars

\* C11's case: a booked reservation was cancelled, and a cancel was then
\* called on the checked_in reservation, which is still checked_in
C11_Witness ==
    /\ last.op = "db.cancel_reservation"
    /\ last.args.confirmation_number = conf001
    /\ reservations[CONF001].status = "checked_in"
    /\ KA \in DOMAIN reservations
    /\ reservations[KA].status = "cancelled"

----------------------------------------------------------------------------
(* C12 *)

\* the active reservations of a room type whose stay overlaps a range
ActiveOverlapping(room_type, check_in, check_out) ==
    {k \in DOMAIN reservations :
        /\ reservations[k].room_type_id = room_type
        /\ reservations[k].status \in {"confirmed", "checked_in"}
        /\ StaysOverlap(reservations[k].check_in_date,
                        reservations[k].check_out_date, check_in, check_out)}

\* C12: a booking whose guards have passed is inserted and confirmed
\* whatever other callers have inserted since its availability read (only a
\* collision of the confirmation number stops it), so two bookings of the
\* same room type over overlapping ranges that both read the availability
\* before either insert both succeed, even with one room of the type: a
\* state with more active reservations than rooms is reached.
C12_InterleavedBookingsBothSucceed ==
    [][\A c \in Callers :
        (pending[c].pc = "booking" /\ pending'[c] = Idle)
        => \/ /\ last'.raised = None
              /\ The(last'.ret).kind = "Confirmed"
              /\ \E k \in DOMAIN reservations' \ DOMAIN reservations :
                    /\ DOMAIN reservations' = DOMAIN reservations \cup {k}
                    /\ reservations'[k].status = "confirmed"
                    /\ reservations'[k].room_type_id = pending[c].args.room_type
                    /\ reservations'[k].check_in_date = pending[c].args.check_in
                    /\ reservations'[k].check_out_date = pending[c].args.check_out
           \/ /\ last'.raised = "IntegrityError"
              /\ reservations' = reservations
              /\ GenConfNums \cap DOMAIN reservations # {}
      ]_vars

\* C12's case: a booking of the only suite was confirmed though another
\* caller had, after this booking's availability read, inserted an active
\* reservation of a suite over an overlapping range
C12_Witness ==
    /\ last.op = "make_reservation"
    /\ "seen" \in DOMAIN last
    /\ last.raised = None
    /\ The(last.ret).kind = "Confirmed"
    /\ Cardinality({n \in DOMAIN rooms : rooms[n].room_type_id = last.args.room_type
                                         /\ rooms[n].status = "available"}) = 1
    /\ \E k \in DOMAIN reservations \ last.seen :
          /\ k # The(The(last.ret).data.result).confirmation_number
          /\ k \in ActiveOverlapping(last.args.room_type, last.args.check_in,
                                     last.args.check_out)
    /\ Cardinality(ActiveOverlapping(last.args.room_type, last.args.check_in,
                                     last.args.check_out)) > 1

----------------------------------------------------------------------------
(* C13 *)

\* C13: a service request is only ever inserted for a reservation whose
\* status, at the moment of the insert, is confirmed or checked_in,
\* however the callers' steps interleave.
C13_RequestInsertedForActiveOnly ==
    [][Len(service_requests') > Len(service_requests)
       => \E k \in DOMAIN reservations :
             /\ k = service_requests'[Len(service_requests')].confirmation_number
             /\ reservations[k].status \in {"confirmed", "checked_in"}
      ]_vars

----------------------------------------------------------------------------
(* C14 *)

\* the tools of the facade
ToolOps ==
    {"check_availability", "make_reservation", "get_reservation",
     "cancel_reservation", "submit_service_request", "get_hotel_info",
     "get_room_types"}

\* C14: every call of a tool returns a text response and raises nothing,
\* a booking whose drawn confirmation number is that of an existing
\* reservation included.
C14_NoExceptionEscapes ==
    last.op \in ToolOps => last.raised = None /\ last.ret # {}

----------------------------------------------------------------------------
(* C15 *)

\* C15: no two reservations share a confirmation number, in any casing; a
\* db.make_reservation never changes or removes an existing reservation,
\* a colliding one adds nothing, and the confirmation number a successful
\* one returns was not in the store before the call and is in it after.
C15_ConfirmationNumbersUnique ==
    /\ \A k1, k2 \in DOMAIN reservations : SameButCase(k1, k2) => k1 = k2
    /\ [][/\ \A k1, k2 \in DOMAIN reservations' : SameButCase(k1, k2) => k1 = k2
          /\ last'.op = "db.make_reservation"
             => /\ \A k \in DOMAIN reservations :
                      k \in DOMAIN reservations' /\ reservations'[k] = reservations[k]
                /\ IF last'.raised = None
                   THEN /\ The(last'.ret).confirmation_number \notin DOMAIN reservations
                        /\ DOMAIN reservations' = DOMAIN reservations
                              \cup {The(last'.ret).confirmation_number}
                   ELSE reservations' = reservations
         ]_vars

\* C15's case: the drawn confirmation number was that of a reservation
\* booked before, and the call raised
C15_Witness ==
    /\ last.op = "db.make_reservation"
    /\ last.raised = "IntegrityError"
    /\ KA \in DOMAIN reservations

----------------------------------------------------------------------------
(* C16 *)

\* C16: after its creation no step changes a reservation's total amount,
\* dates, room type, guest count, guest fields or room: a reservation
\* changes in its status field at most, and a cancel changes no reservation
\* but the one its confirmation number matches.
C16_ReservationFieldsFixed ==
    [][/\ \A k \in DOMAIN reservations :
            /\ k \in DOMAIN reservations'
            /\ [reservations'[k] EXCEPT !.status = reservations[k].status]
                   = reservations[k]
       /\ \A c \in ConfInputs :
            (/\ last'.op \in {"cancel_reservation", "db.cancel_reservation"}
             /\ last'.args.confirmation_number = c)
            => \A k \in DOMAIN reservations \ Matching(c) :
                   reservations'[k] = reservations[k]
      ]_vars

\* C16's case: a reservation of two nights in a suite was cancelled by the
\* tool, and is stored with the total of its creation
C16_Witness ==
    /\ last.op = "cancel_reservation"
    /\ last.args.confirmation_number = ka
    /\ The(last.ret).kind = "Cancelled"
    /\ reservations[KA].status = "cancelled"
    /\ reservations[KA].room_type_id = "suite"
    /\ reservations[KA].check_in_date = D(Today)
    /\ reservations[KA].total_amount = 2 * 399

----------------------------------------------------------------------------
(* C17 *)

\* C17: the room types, the rooms (each room's status included) and the
\* hotel facts are, in every reachable state, the seeded ones: no call of
\* the store or of a tool changes them.
C17_InventoryImmutable ==
    /\ room_types = SeedRoomTypes
    /\ rooms = SeedRooms
    /\ hotel_info = SeedHotelInfo

\* C17's case: a reservation was booked and cancelled, a service request
\* was inserted, and the room types were listed
C17_Witness ==
    /\ last.op = "get_room_types"
    /\ KA \in DOMAIN reservations
    /\ reservations[KA].status = "cancelled"
    /\ Len(service_requests) = 1

----------------------------------------------------------------------------
(* C18 *)

\* C18: a db.make_reservation that returns adds exactly one reservation,
\* with status confirmed and no room, and changes no existing reservation,
\* service request, room, room type or hotel fact.
C18_CreateAddsOneRow ==
    [][(last'.op = "db.make_reservation" /\ last'.raised = None)
       => /\ \E k \in DOMAIN reservations' \ DOMAIN reservations :
               /\ DOMAIN reservations' = DOMAIN reservations \cup {k}
               /\ reservations'[k].status = "confirmed"
               /\ reservations'[k].room_number = NULL
          /\ \A k \in DOMAIN reservations : reservations'[k] = reservations[k]
          /\ UNCHANGED <<room_types, rooms, service_requests, hotel_info>>
      ]_vars

\* C18's case: the store made a reservation; it holds no room
C18_Witness ==
    /\ last.op = "db.make_reservation"
    /\ last.raised = None
    /\ The(last.ret).confirmation_number = KA
    /\ reservations[KA].room_number = NULL
    /\ reservations[KA].status = "confirmed"

----------------------------------------------------------------------------
(* C19 *)

\* the calls that only read
ReadOnlyOps ==
    {"db.get_room_types", "db.check_availability", "db.get_reservation",
     "db.get_hotel_info", "get_room_types", "check_availability",
     "get_reservation", "get_hotel_info"}

\* the responses of the tools that report an error
ErrorKinds ==
    {"InvalidFormat", "InvalidRange", "PastDate", "Unavailable",
     "UnknownRoomType", "OccupancyExceeded", "NotFound", "AlreadyCancelled",
     "AlreadyCheckedIn", "AlreadyCheckedOut", "UnableToCancel",
     "InvalidRequestType", "NoActiveReservation", "NoRooms", "NoInformation"}

\* C19: every read-only call, of the store or of a tool, and every call of
\* a tool that returns an error response (a failing guard of a booking, a
\* rejected cancellation, an invalid request type, no active reservation
\* for a service request) leaves the five tables unchanged.
C19_ReadsAndErrorsChangeNothing ==
    [][/\ last'.op \in ReadOnlyOps => UNCHANGED tables
       /\ (/\ last'.op \in ToolOps
           /\ last'.raised = None
           /\ The(last'.ret).kind \in ErrorKinds)
          => UNCHANGED tables
      ]_vars

\* C19's case: with a reservation booked and one cancelled in the store, a
\* service request of a valid type for a checked_out reservation was refused
C19_Witness ==
    /\ last.op = "submit_service_request"
    /\ last.args = [confirmation_number |-> conf001, request_type |-> "room_service"]
    /\ reservations[CONF001].status = "checked_out"
    /\ The(last.ret).kind = "NoActiveReservation"
    /\ KA \in DOMAIN reservations

----------------------------------------------------------------------------
(* C20 *)

\* C20: in every state reached through the tools, every reservation of the
\* store, seeded or booked, has its check-out date after its check-in date.
C20_StayHasANight ==
    \A k \in DOMAIN reservations :
        /\ Canonical(reservations[k].check_in_date)
        /\ Canonical(reservations[k].check_out_date)
        /\ DayValue(reservations[k].check_out_date)
               > DayValue(reservations[k].check_in_date)

\* C20's case: with a reservation booked through the tool in the store, a
\* booking of a stay of no night, for a guest count the room type takes,
\* was refused
C20_Witness ==
    /\ last.op = "make_reservation"
    /\ last.args.check_in = last.args.check_out
    /\ last.args.room_type = "suite"
    /\ The(last.ret).kind = "InvalidRange"
    /\ KA \in DOMAIN reservations

----------------------------------------------------------------------------
(* C21 *)

\* the service requests are all pending and their ids grow with the order
\* they were created in
RequestsPendingAndNumbered ==
    /\ \A i \in 1..Len(service_requests) : service_requests[i].status = "pending"
    /\ \A i, j \in 1..Len(service_requests) :
           i < j => service_requests[i].id < service_requests[j].id

\* C21: in every reachable state every service request has status pending
\* and the request ids are pairwise distinct and strictly increasing in the
\* order of creation; no call of the store or of a tool changes or deletes
\* a service request there is.
C21_RequestsPendingNumberedKept ==
    /\ RequestsPendingAndNumbered
    /\ [][/\ RequestsPendingAndNumbered'
          /\ Len(service_requests') >= Len(service_requests)
          /\ SubSeq(service_requests', 1, Len(service_requests)) = service_requests]_vars

\* C21's case: two service requests are in the store and the reservation
\* of the first one was cancelled afterwards
C21_Witness ==
    /\ Len(service_requests) = 2
    /\ service_requests[1].confirmation_number = KA
    /\ reservations[KA].status = "cancelled"
    /\ service_requests[2].id = 2

----------------------------------------------------------------------------
(* C22 *)

\* rows come by rate and, within a rate, by room number
OrderedByRateThenNumber(rows) ==
    \A i, j \in DOMAIN rows :
        i < j => \/ rows[i].base_rate < rows[j].base_rate
                 \/ /\ rows[i].base_rate = rows[j].base_rate
                    /\ rows[i].room_number < rows[j].room_number

\* C22: db.check_availability raises nothing and returns its rooms by
\* nightly rate ascending, then by room number ascending; with a room-type
\* filter every returned room is of that type, and a filter that names no
\* room type of the store returns the empty result. The tool
\* check_availability, its dates accepted, answers 'no rooms available'
\* exactly when no room of the filter is unbooked in the range, which is
\* so for an unknown type.
C22_OrderedFilteredOrEmpty ==
    /\ last.op = "db.check_availability"
       => /\ last.raised = None
          /\ OrderedByRateThenNumber(The(last.ret))
          /\ last.args.room_type \notin {None, ""}
             => /\ \A i \in DOMAIN The(last.ret) :
                       The(last.ret)[i].room_type_id = last.args.room_type
                /\ last.args.room_type \notin DOMAIN room_types
                   => The(last.ret) = <<>>
    /\ (/\ last.op = "check_availability"
        /\ DateVerdict(last.args.check_in, last.args.check_out) = "Pass")
       => /\ last.raised = None
          /\ The(last.ret).kind \in {"NoRooms", "Availability"}
          /\ The(last.ret).kind = "NoRooms"
             <=> ExpectedRooms(last.args.check_in, last.args.check_out,
                               last.args.room_type) = {}
          /\ (/\ last.args.room_type \notin {None, ""}
              /\ last.args.room_type \notin DOMAIN room_types)
             => The(last.ret).kind = "NoRooms"

\* C22's case: an unfiltered query inside the active stay on room 203
\* returned the other rooms, the family room 205 (249 a night) before the
\* suite 204 (399 a night)
C22_Witness ==
    /\ last.op = "db.check_availability"
    /\ last.args.room_type = None
    /\ reservations[CONF001].status = "checked_in"
    /\ [i \in DOMAIN The(last.ret) |-> The(last.ret)[i].room_number]
           = <<201, 202, 205, 204>>

----------------------------------------------------------------------------
(* C23 *)

\* C23: init_database called on a store that holds data, whatever bookings,
\* cancellations and service requests were made before, raises nothing and
\* leaves every table as it was.
C23_InitIsIdempotent ==
    [][last'.op = "init_database"
          => /\ last'.raised = None
             /\ UNCHANGED tables]_vars

\* C23's case: init_database ran on a store where a booked reservation was
\* cancelled, the seeded one was checked out and a service request is kept
C23_Witness ==
    /\ last.op = "init_database"
    /\ KA \in DOMAIN reservations
    /\ reservations[KA].status = "cancelled"
    /\ reservations[CONF001] # SeedReservations[CONF001]
    /\ Len(service_requests) = 1

----------------------------------------------------------------------------
(* C24 *)

\* C24: in every store state the resource hotel://info returns what the
\* tool get_hotel_info returns without a topic, hotel://rooms what the tool
\* get_room_types returns, and hotel://attractions what get_hotel_info
\* returns for the topic local_attractions.
C24_ResourcesEqualTools ==
    /\ last.op = "hotel://info"
       => last.raised = None /\ last.ret = {get_hotel_info(None)}
    /\ last.op = "hotel://rooms"
       => last.raised = None /\ last.ret = {get_room_types}
    /\ last.op = "hotel://attractions"
       => last.raised = None /\ last.ret = {get_hotel_info("local_attractions")}

\* C24's case: hotel://attractions was read, after a booking through the
\* tool, and returned the attractions, which the overview does not hold
C24_Witness ==
    /\ last.op = "hotel://attractions"
    /\ The(last.ret).kind = "Attractions"
    /\ The(last.ret) # get_hotel_info(None)
    /\ KA \in DOMAIN reservations

----------------------------------------------------------------------------
(* C25 *)

\* C25: a booking through the tool with accepted dates and a room type that
\* is no id of room_types creates no reservation and raises nothing. When
\* the room type is a non-empty text the answer is Unavailable; when it is
\* empty or None the availability is read without a filter and the answer
\* is UnknownRoomType if a room is unbooked in the range, Unavailable if
\* none is. No booking of a known or non-empty type is answered
\* UnknownRoomType.
C25_UnknownTypeNeverBooks ==
    [][last'.op = "make_reservation"
          => /\ (/\ last'.raised = None
                 /\ The(last'.ret).kind = "UnknownRoomType")
                => last'.args.room_type \in {None, ""}
             /\ (/\ DateVerdict(last'.args.check_in, last'.args.check_out) = "Pass"
                 /\ last'.args.room_type \notin DOMAIN room_types)
                => /\ reservations' = reservations
                   /\ last'.raised = None
                   /\ The(last'.ret).kind =
                         IF last'.args.room_type \notin {None, ""}
                         THEN "Unavailable"
                         ELSE IF ExpectedRooms(last'.args.check_in,
                                               last'.args.check_out, None) = {}
                         THEN "Unavailable"
                         ELSE "UnknownRoomType"]_vars

\* C25's case: with a reservation booked through the tool in the store, a
\* booking of a penthouse for accepted dates was answered Unavailable
C25_Witness ==
    /\ last.op = "make_reservation"
    /\ last.args.room_type = "penthouse"
    /\ DateVerdict(last.args.check_in, last.args.check_out) = "Pass"
    /\ The(last.ret).kind = "Unavailable"
    /\ KA \in DOMAIN reservations

----------------------------------------------------------------------------
(* C26 *)

\* the nights the stays of the model cover
Nights == (Today - 2)..(Today + 5)

\* the rooms of a room type whose status is available
RoomsOfType(room_type) ==
    {n \in DOMAIN rooms :
        rooms[n].room_type_id = room_type /\ rooms[n].status = "available"}

----------------------------------------------------------------------------
(* C27 *)

\* the rooms db.check_availability returns on the seeded store
SeededRooms(check_in, check_out, room_type) ==
    {n \in DOMAIN SeedRooms :
        /\ SeedRooms[n].status = "available"
        /\ ~ \E k \in DOMAIN SeedReservations :
               /\ SeedReservations[k].room_number = n
               /\ SeedReservations[k].status \in {"confirmed", "checked_in"}
               /\ TextLt(SeedReservations[k].check_in_date, check_out)
               /\ TextLt(check_in, SeedReservations[k].check_out_date)
        /\ room_type \notin {None, ""} => SeedRooms[n].room_type_id = room_type}

\* the rows are those of the rooms returned on the seeded store, in the
\* one order by rate and room number
IsSeededResult(rows, check_in, check_out, room_type) ==
    /\ RoomNumbers(rows) = SeededRooms(check_in, check_out, room_type)
    /\ Len(rows) = Cardinality(SeededRooms(check_in, check_out, room_type))
    /\ OrderedByRateThenNumber(rows)
    /\ \A i \in DOMAIN rows :
          LET n == rows[i].room_number
          IN  rows[i] = [room_number |-> n,
                         floor |-> SeedRooms[n].floor,
                         room_type_id |-> SeedRooms[n].room_type_id,
                         room_type_name |-> SeedRoomTypes[SeedRooms[n].room_type_id].name,
                         base_rate |-> SeedRoomTypes[SeedRooms[n].room_type_id].base_rate,
                         max_occupancy |-> SeedRoomTypes[SeedRooms[n].room_type_id].max_occupancy]

\* C27: in every state reached from the seeded store through the tools
\* (bookings, cancellations, service requests, reads), db.check_availability
\* returns for every range of dates and every room-type filter what it
\* returns on the seeded store.
C27_AvailabilityNeverChanges ==
    \A p \in GoodDatePairs \cup DbDatePairs, f \in FilterInputs \cup {"suite"} :
        IsSeededResult(db_check_availability(p[1], p[2], f), p[1], p[2], f)

\* C27's case: with a confirmed suite booked through the tool for tonight,
\* the availability tool still lists the one suite room for a range over
\* tonight
C27_Witness ==
    /\ last.op = "check_availability"
    /\ last.args.check_in = D(Today)
    /\ The(last.ret).kind = "Availability"
    /\ \E i \in DOMAIN The(last.ret).data : The(last.ret).data[i].rooms = <<204>>
    /\ KA \in DOMAIN reservations
    /\ reservations[KA].room_type_id = "suite"
    /\ reservations[KA].status = "confirmed"
    /\ reservations[KA].check_in_date = D(Today)

----------------------------------------------------------------------------
(* C28 *)

\* C28: when callers cancel the same confirmed reservation side by side,
\* each having read it as confirmed before any update, the update of the
\* first sets it to cancelled and is answered with the confirmation; the
\* update of every other changes nothing and is answered 'Unable to cancel
\* reservation'. A cancelled reservation stays cancelled, so no reservation
\* is confirmed cancelled twice.
C28_OneCancelConfirmed ==
    [][/\ \A c \in Callers :
            (pending[c].pc = "cancel" /\ pending'[c] = Idle)
            => LET k == Upper(pending[c].confirmation_number)
               IN  /\ last'.op = "cancel_reservation"
                   /\ last'.raised = None
                   /\ IF reservations[k].status = "confirmed"
                      THEN /\ The(last'.ret).kind = "Cancelled"
                           /\ reservations'[k].status = "cancelled"
                      ELSE /\ The(last'.ret).kind = "UnableToCancel"
                           /\ reservations' = reservations
       /\ \A k \in DOMAIN reservations :
            reservations[k].status = "cancelled"
            => k \in DOMAIN reservations' /\ reservations'[k].status = "cancelled"
      ]_vars

\* C28's case: both callers had read CONF002 as confirmed; the update of
\* one cancelled it, and the update of the other was answered 'Unable to
\* cancel reservation'
C28_Witness ==
    /\ last.op = "cancel_reservation"
    /\ last.args.confirmation_number = CONF002
    /\ The(last.ret).kind = "UnableToCancel"
    /\ reservations[CONF002].status = "cancelled"
    /\ \A c \in Callers : pending[c] = Idle

----------------------------------------------------------------------------
(* C29 *)

\* C29: in every reachable state the confirmation number stored with each
\* service request is the key of a reservation of the store, in the upper
\* case of the keys, whatever case the caller passed it in.
C29_RequestsReferToReservations ==
    \A i \in 1..Len(service_requests) :
        /\ service_requests[i].confirmation_number \in DOMAIN reservations
        /\ Upper(service_requests[i].confirmation_number)
               = service_requests[i].confirmation_number

\* C29's case: the tool was passed conf001 in lower case and the request
\* was stored under CONF001
C29_Witness ==
    /\ last.op = "submit_service_request"
    /\ last.args.confirmation_number = conf001
    /\ conf001 # CONF001
    /\ Len(service_requests) = 1
    /\ service_requests[1].confirmation_number = CONF001

----------------------------------------------------------------------------
(* C30 *)

\* the rooms held by an active reservation whose stay, as calendar dates,
\* shares a night with [check_in, check_out)
ReservedRoomsByCalendar(check_in, check_out) ==
    {reservations[k].room_number : k \in
        {k \in DOMAIN reservations :
            /\ reservations[k].room_number # NULL
            /\ reservations[k].status \in {"confirmed", "checked_in"}
            /\ StaysOverlap(reservations[k].check_in_date,
                            reservations[k].check_out_date, check_in, check_out)}}

\* C30: for every pair of date texts the guards of check_availability
\* accept, written with or without a leading zero, the rooms the store's
\* subquery takes as reserved, comparing the texts as passed, are those
\* whose active reservation shares a night with the range as calendar dates.
C30_TextConflictIsCalendarConflict ==
    (/\ last.op = "check_availability"
     /\ DateVerdict(last.args.check_in, last.args.check_out) = "Pass")
    => ReservedRooms(last.args.check_in, last.args.check_out)
           = ReservedRoomsByCalendar(last.args.check_in, last.args.check_out)

====
